---- MODULE Spec2Model ----
(***************************************************************************)
(* The POST /predict-stats relay of src/server.js: normalization of the    *)
(* request body, one outbound call to the prediction service, and the      *)
(* mapping of its result (or failure) to the HTTP response.                *)
(***************************************************************************)
EXTENDS Integers, Sequences, FiniteSets

(***************************************************************************)
(* JavaScript values.  A value is a record [t, n, s]: t is the type tag,   *)
(* n the number (tag "num"), s the string as a sequence of characters      *)
(* (tag "str").  "obj" is a JSON object whose own valueOf and toString     *)
(* properties are not callable, e.g. {"valueOf": 1, "toString": 1}: it is  *)
(* truthy, and converting it to a primitive raises a TypeError.  "throw"   *)
(* is the completion of an expression that raised.                         *)
(***************************************************************************)
V(t, n, s) == [t |-> t, n |-> n, s |-> s]
Undef == V("undef", 0, <<>>)
Null == V("null", 0, <<>>)
NaN == V("nan", 0, <<>>)
Obj == V("obj", 0, <<>>)
Throw == V("throw", 0, <<>>)
Num(n) == V("num", n, <<>>)
Str(s) == V("str", 0, s)

Digits == <<"0", "1", "2", "3", "4", "5", "6", "7", "8", "9">>
Base == Len(Digits)

IsDigit(c) == \E i \in 1..Len(Digits) : Digits[i] = c
DigitVal(c) == (CHOOSE i \in 1..Len(Digits) : Digits[i] = c) - 1

RECURSIVE NatToStr(_)
NatToStr(n) ==
    IF n < Base THEN <<Digits[n + 1]>>
    ELSE NatToStr(n \div Base) \o <<Digits[(n % Base) + 1]>>

\* Number.prototype.toString on an integer
NumToStr(n) == IF n < 0 THEN <<"-">> \o NatToStr(0 - n) ELSE NatToStr(n)

RECURSIVE DigitsToNat(_)
DigitsToNat(s) ==
    IF s = <<>> THEN 0
    ELSE Base * DigitsToNat(SubSeq(s, 1, Len(s) - 1)) + DigitVal(s[Len(s)])

AllDigits(s) == s # <<>> /\ \A i \in 1..Len(s) : IsDigit(s[i])

\* ToNumber on a string: "" is 0, an optionally signed run of digits is its
\* value, any other text is NaN
StrToNum(s) ==
    IF s = <<>> THEN Num(0)
    ELSE IF AllDigits(s) THEN Num(DigitsToNat(s))
    ELSE IF s[1] = "-" /\ AllDigits(Tail(s)) THEN Num(0 - DigitsToNat(Tail(s)))
    ELSE NaN

\* ToBoolean
Truthy(v) ==
    CASE v.t = "undef" -> FALSE
      [] v.t = "null" -> FALSE
      [] v.t = "nan" -> FALSE
      [] v.t = "num" -> v.n # 0
      [] v.t = "str" -> v.s # <<>>
      [] OTHER -> TRUE

\* ToNumber
ToNumber(v) ==
    CASE v.t = "undef" -> NaN
      [] v.t = "null" -> Num(0)
      [] v.t = "num" -> v
      [] v.t = "str" -> StrToNum(v.s)
      [] v.t = "obj" -> Throw
      [] OTHER -> v

\* ToString, as String(v) applies it
StringOf(v) ==
    CASE v.t = "undef" -> Str(<<"u", "n", "d", "e", "f", "i", "n", "e", "d">>)
      [] v.t = "null" -> Str(<<"n", "u", "l", "l">>)
      [] v.t = "nan" -> Str(<<"N", "a", "N">>)
      [] v.t = "num" -> Str(NumToStr(v.n))
      [] v.t = "str" -> v
      [] v.t = "obj" -> Throw
      [] OTHER -> v

\* a || b
Or(a, b) == IF Truthy(a) THEN a ELSE b

\* a + b: string concatenation as soon as one operand is a string
Plus(a, b) ==
    IF a.t = "throw" \/ a.t = "obj" \/ b.t = "obj" THEN Throw
    ELSE IF a.t = "str" \/ b.t = "str"
         THEN Str(StringOf(a).s \o StringOf(b).s)
    ELSE LET x == ToNumber(a)
             y == ToNumber(b)
         IN IF x.t = "nan" \/ y.t = "nan" THEN NaN ELSE Num(x.n + y.n)

SixContributors == 6

\* Math.round(a / 6): the nearest integer, a tie going up
RoundDiv6(a) ==
    LET x == ToNumber(a)
    IN IF x.t = "throw" \/ x.t = "nan" THEN x
       ELSE Num((2 * x.n + SixContributors) \div (2 * SixContributors))

\* a <= b in place of a < b
LessOrEqual(a, k) ==
    LET x == ToNumber(a)
    IN IF x.t = "throw" THEN "throw"
       ELSE IF x.t = "num" /\ x.n <= k THEN "yes" ELSE "no"

\* a < b and a > b, with b a number: "yes", "no" or "throw"
Less(a, k) ==
    LET x == ToNumber(a)
    IN IF x.t = "throw" THEN "throw"
       ELSE IF x.t = "num" /\ x.n < k THEN "yes" ELSE "no"

Greater(a, k) ==
    LET x == ToNumber(a)
    IN IF x.t = "throw" THEN "throw"
       ELSE IF x.t = "num" /\ x.n > k THEN "yes" ELSE "no"

\* String.prototype.toLowerCase over the letters of the model's alphabet
LowerChar(c) ==
    CASE c = "F" -> "f"
      [] c = "A" -> "a"
      [] c = "T" -> "t"
      [] c = "L" -> "l"
      [] OTHER -> c

ToLowerCase(s) == [i \in 1..Len(s) |-> LowerChar(s[i])]

\* String.prototype.includes
Includes(s, sub) ==
    \E i \in 0..(Len(s) - Len(sub)) : SubSeq(s, i + 1, i + Len(sub)) = sub

(***************************************************************************)
(* Normalization (the `mapped` object literal).                            *)
(***************************************************************************)
RawFields == {"age", "weight_kg", "weight", "potential", "skill_moves",
              "dribbling", "work_rate", "body_type", "pace", "shooting",
              "passing", "defending", "physic", "player_traits"}

NormFields == {"age", "weight_kg", "potential", "skill_moves", "work_rate",
               "body_type", "pace", "shooting", "passing", "defending",
               "physic", "player_traits"}

UnknownCategory == Str(<<"U", "n", "k", "n", "o", "w", "n", "_",
                         "C", "a", "t", "e", "g", "o", "r", "y">>)

\* x !== undefined ? x : d
OrDefault(x, d) == IF x # Undef THEN x ELSE d

potentialEstimate(playerData) ==
    Or(RoundDiv6(
         Plus(Plus(Plus(Plus(Plus(Or(playerData.pace, Num(0)),
                                  Or(playerData.shooting, Num(0))),
                             Or(playerData.passing, Num(0))),
                        Or(playerData.dribbling, Num(0))),
                   Or(playerData.defending, Num(0))),
              Or(playerData.physic, Num(0)))),
       Num(0))

\* playerData.weight_kg !== undefined ? playerData.weight_kg : (playerData.weight || 0)
weightKg(playerData) ==
    OrDefault(playerData.weight_kg, Or(playerData.weight, Num(0)))

\* potential estimated even when the body gives it
potentialAlwaysEstimated(playerData) == potentialEstimate(playerData)

\* playerData.potential !== undefined ? playerData.potential : <estimate>
potential(playerData) ==
    OrDefault(playerData.potential, potentialEstimate(playerData))

\* skill_moves without the dribbling proxy
skillMovesNoProxy(playerData) == OrDefault(playerData.skill_moves, Num(0))

\* playerData.skill_moves !== undefined ? playerData.skill_moves
\*     : (playerData.dribbling !== undefined ? playerData.dribbling : 0)
skillMoves(playerData) ==
    OrDefault(playerData.skill_moves, OrDefault(playerData.dribbling, Num(0)))

normalize(playerData) ==
    [age |-> OrDefault(playerData.age, Num(0)),
     weight_kg |-> weightKg(playerData),
     potential |-> potential(playerData),
     skill_moves |-> skillMoves(playerData),
     work_rate |-> Or(playerData.work_rate, UnknownCategory),
     body_type |-> Or(playerData.body_type, UnknownCategory),
     pace |-> OrDefault(playerData.pace, Num(0)),
     shooting |-> OrDefault(playerData.shooting, Num(0)),
     passing |-> OrDefault(playerData.passing, Num(0)),
     defending |-> OrDefault(playerData.defending, Num(0)),
     physic |-> OrDefault(playerData.physic, Num(0)),
     player_traits |-> Or(playerData.player_traits, Str(<<>>))]

\* the object literal raised while it was being evaluated
normalizeThrew(m) == m.potential.t = "throw"

(***************************************************************************)
(* The prediction service's JSON bodies.  kind "object" carries the four   *)
(* fields the relay reads (and `error` on a failure); "null" is the body   *)
(* null, "empty" the empty body (axios gives ''), "text" a non-JSON body   *)
(* such as an HTML error page.                                             *)
(***************************************************************************)
Body(kind, prediction, response, message, overall, error) ==
    [kind |-> kind, prediction |-> prediction, response |-> response,
     message |-> message, overall_calculated |-> overall, error |-> error]

NoBody == Body("empty", Undef, Undef, Undef, Undef, Undef)

\* data.f: a property read on the parsed body
Prop(data, f) ==
    IF data.kind = "object" THEN data[f]
    ELSE IF data.kind = "null" THEN Throw
    ELSE Undef

\* apiResponse && apiResponse.data ? apiResponse.data : {}
pythonData(data) ==
    IF data.kind \in {"object", "text"} THEN data
    ELSE Body("object", Undef, Undef, Undef, Undef, Undef)

\* the rejection of axios.post, or the error raised inside the try block
Failure(hasResponse, hasRequest, data, message) ==
    [response |-> hasResponse, request |-> hasRequest, data |-> data,
     message |-> message]

NoFailure == Failure(FALSE, FALSE, NoBody, Undef)

TypeErrorMessage == Str(<<"T", "y", "p", "e", "E", "r", "r", "o", "r">>)
TypeError == Failure(FALSE, FALSE, NoBody, TypeErrorMessage)

(***************************************************************************)
(* The reasons heuristic.                                                  *)
(***************************************************************************)
PaceMin == 70
ShootingMin == 65
PassingMin == 65
DefendingMin == 60
PhysicMin == 65
PotentialMin == 50
SkillMovesMin == 3
AgeMax == 34

LowPace == "Low pace"
LowShooting == "Low shooting"
LowPassing == "Low passing"
LowDefending == "Low defending"
LowPhysicality == "Low physicality"
LowPotential == "Low potential"
LowSkillMoves == "Low skill moves"
AgeHigh == "Age may be high"
BodyTypeReason == "Body type may affect performance"
FallbackReason ==
    "No single weak area detected; overall stats may be below model threshold"

ReasonCatalog == <<LowPace, LowShooting, LowPassing, LowDefending,
                   LowPhysicality, LowPotential, LowSkillMoves, AgeHigh,
                   BodyTypeReason>>

Fat == <<"f", "a", "t">>

\* x !== undefined && x < k
DefinedAndLess(x, k) == IF x = Undef THEN "no" ELSE Less(x, k)

\* x !== undefined && x > k
DefinedAndGreater(x, k) == IF x = Undef THEN "no" ELSE Greater(x, k)

\* b && String(b).toLowerCase().includes('fat')
bodyTypeCheck(b) ==
    IF ~Truthy(b) THEN "no"
    ELSE LET str == StringOf(b)
         IN IF str.t = "throw" THEN "throw"
            ELSE IF Includes(ToLowerCase(str.s), Fat) THEN "yes" ELSE "no"

\* the condition of the i-th `if` of the reasons block
reasonCheck(m, i) ==
    CASE i = 1 -> DefinedAndLess(m.pace, PaceMin)
      [] i = 2 -> DefinedAndLess(m.shooting, ShootingMin)
      [] i = 3 -> DefinedAndLess(m.passing, PassingMin)
      [] i = 4 -> DefinedAndLess(m.defending, DefendingMin)
      [] i = 5 -> DefinedAndLess(m.physic, PhysicMin)
      [] i = 6 -> DefinedAndLess(m.potential, PotentialMin)
      [] i = 7 -> DefinedAndLess(m.skill_moves, SkillMovesMin)
      [] i = 8 -> DefinedAndGreater(m.age, AgeMax)
      [] OTHER -> bodyTypeCheck(m.body_type)

\* the statements of the reasons block from the i-th on, `list` being the
\* reasons pushed so far
RECURSIVE pushReasons(_, _, _)
pushReasons(m, i, list) ==
    IF i > Len(ReasonCatalog)
    THEN [threw |-> FALSE,
          list |-> IF Len(list) = 0 THEN <<FallbackReason>> ELSE list]
    ELSE LET c == reasonCheck(m, i)
         IN IF c = "throw" THEN [threw |-> TRUE, list |-> list]
            ELSE pushReasons(m, i + 1,
                             IF c = "yes" THEN Append(list, ReasonCatalog[i])
                             ELSE list)

\* prediction == 0, the loose comparison
looselyZero(prediction) ==
    prediction.t \in {"num", "str"} /\ ToNumber(prediction) = Num(0)

\* prediction === 0
isZero(prediction) == prediction = Num(0)

\* the catch block without its `reasons = []`
reasonsKeptAfterFault(list) == list

\* what the catch around the reasons block leaves in `reasons`
reasonsAfterFault(list) == <<>>

\* let reasons = []; try { if (prediction === 0) { ... } } catch (e) { reasons = [] }
computeReasons(prediction, m) ==
    IF isZero(prediction)
    THEN LET r == pushReasons(m, 1, <<>>)
         IN IF r.threw THEN reasonsAfterFault(r.list) ELSE r.list
    ELSE <<>>

(***************************************************************************)
(* Responses.  res.json serializes with JSON.stringify, which drops the    *)
(* keys whose value is undefined.                                          *)
(***************************************************************************)
StatusOK == 200
StatusError == 500

\* sent: res.json has been called; status: res.statusCode
Response(sent, status, prediction, message, reasons, overall, error) ==
    [sent |-> sent, status |-> status, prediction |-> prediction,
     message |-> message, reasons |-> reasons,
     overall_calculated |-> overall, error |-> error]

NoResponse == Response(FALSE, StatusOK, Undef, Undef, <<>>, Undef, Undef)

\* the keys of the JSON body the client receives
Keys(resp) ==
    IF ~resp.sent THEN {}
    ELSE IF resp.status = StatusOK
    THEN {k \in {"prediction", "message", "overall_calculated"} : resp[k] # Undef}
         \cup {"reasons"}
    ELSE {k \in {"error"} : resp[k] # Undef}

extractPrediction(data) ==
    OrDefault(Prop(data, "prediction"), Or(Prop(data, "response"), Null))

extractMessage(data) == Or(Prop(data, "message"), Null)

extractOverall(data) == OrDefault(Prop(data, "overall_calculated"), Null)

\* the statements after the await, up to res.json
onSuccess(m, body) ==
    LET data == pythonData(body)
        prediction == extractPrediction(data)
    IN Response(TRUE, StatusOK, prediction, extractMessage(data),
                computeReasons(prediction, m), extractOverall(data), Undef)

\* "Sorry, I'm having trouble thinking right now."
GenericText ==
    <<"S", "o", "r", "r", "y", ",", " ", "I", "'", "m", " ", "h", "a", "v",
      "i", "n", "g", " ", "t", "r", "o", "u", "b", "l", "e", " ", "t", "h",
      "i", "n", "k", "i", "n", "g", " ", "r", "i", "g", "h", "t", " ", "n",
      "o", "w", ".">>

GenericError == Str(GenericText)

\* error.response.data.error || errorMsg
forwardedError(data) == Or(Prop(data, "error"), GenericError)

\* the catch block answering with error.message when there is no response
errorMessageLeaked(error) ==
    IF error.response THEN forwardedError(error.data)
    ELSE Or(error.message, GenericError)

\* the outer catch block: the error string it settles on, Throw when the
\* block itself raises
errorMessage(error) ==
    IF error.response THEN forwardedError(error.data) ELSE GenericError

onFailure(error) ==
    LET msg == errorMessage(error)
    IN IF msg.t = "throw" THEN NoResponse
       ELSE Response(TRUE, StatusError, Undef, Undef, <<>>, Undef, msg)

(***************************************************************************)
(* State: one handler invocation per request.                              *)
(*   pc       "idle" (not yet received), "awaiting" (suspended at the      *)
(*            await of axios.post), "done" (returned), "crashed" (left by  *)
(*            an exception no catch block handled)                         *)
(*   raw      req.body                                                     *)
(*   mapped   the normalized record, once built                            *)
(*   outcome  how the outbound call (or the try block) ended               *)
(*   resp     the response sent to the client                              *)
(*   sent     the number of responses sent for the request                 *)
(*   calls    the number of outbound calls issued for the request          *)
(*   posted   the bodies of the outbound calls issued for the request      *)
(*   events   the outbound calls and the responses, in the order in which  *)
(*            the server issued them                                       *)
(***************************************************************************)
VARIABLES pc, raw, mapped, outcome, resp, sent, calls, posted, events

vars == <<pc, raw, mapped, outcome, resp, sent, calls, posted, events>>

Requests == {"r1", "r2"}

EmptyInput == [f \in RawFields |-> Undef]
NoMapped == [f \in NormFields |-> Undef]

Outcome(kind, data, error) == [kind |-> kind, data |-> data, error |-> error]
NoOutcome == Outcome("none", NoBody, NoFailure)

Event(type, r) == [type |-> type, req |-> r]

\* the body of playerData forwarded in place of the normalized record
rawRequestBody(playerData, m) == playerData

\* the second argument of axios.post
requestBody(playerData, m) == m

\* the `mapped` of another invocation, as a binding shared by all of them
\* would hold it once that invocation has been received
sharedRecord(r) ==
    IF \E q \in Requests \ {r} : pc[q] # "idle"
    THEN mapped[CHOOSE q \in Requests \ {r} : pc[q] # "idle"]
    ELSE mapped[r]

\* the `mapped` the statements after the await read: the const of their own
\* invocation
ownRecord(r) == mapped[r]

Init ==
    /\ pc = [r \in Requests |-> "idle"]
    /\ raw = [r \in Requests |-> EmptyInput]
    /\ mapped = [r \in Requests |-> NoMapped]
    /\ outcome = [r \in Requests |-> NoOutcome]
    /\ resp = [r \in Requests |-> NoResponse]
    /\ sent = [r \in Requests |-> 0]
    /\ calls = [r \in Requests |-> 0]
    /\ posted = [r \in Requests |-> <<>>]
    /\ events = <<>>

\* the handler leaves through the outer catch block with `error`
Catch(r, error) ==
    LET rs == onFailure(error)
    IN /\ resp' = [resp EXCEPT ![r] = rs]
       /\ sent' = [sent EXCEPT ![r] = IF rs.sent THEN @ + 1 ELSE @]
       /\ pc' = [pc EXCEPT ![r] = IF rs.sent THEN "done" ELSE "crashed"]
       /\ events' = IF rs.sent THEN Append(events, Event("response", r))
                     ELSE events

\* the request arrives: the handler runs up to the await of axios.post
Receive(r, input) ==
    /\ pc[r] = "idle"
    /\ raw' = [raw EXCEPT ![r] = input]
    /\ LET m == normalize(input)
       IN IF normalizeThrew(m)
          THEN /\ Catch(r, TypeError)
               /\ outcome' = [outcome EXCEPT ![r] = Outcome("threw", NoBody, TypeError)]
               /\ UNCHANGED <<mapped, calls, posted>>
          ELSE /\ mapped' = [mapped EXCEPT ![r] = m]
               /\ calls' = [calls EXCEPT ![r] = @ + 1]
               /\ posted' = [posted EXCEPT ![r] = Append(@, requestBody(input, m))]
               /\ events' = Append(events, Event("call", r))
               /\ pc' = [pc EXCEPT ![r] = "awaiting"]
               /\ UNCHANGED <<outcome, resp, sent>>

\* axios.post resolves with the service's body: the handler runs to its end
Resolve(r, body) ==
    /\ pc[r] = "awaiting"
    /\ outcome' = [outcome EXCEPT ![r] = Outcome("resolved", body, NoFailure)]
    /\ resp' = [resp EXCEPT ![r] = onSuccess(ownRecord(r), body)]
    /\ sent' = [sent EXCEPT ![r] = @ + 1]
    /\ pc' = [pc EXCEPT ![r] = "done"]
    /\ events' = Append(events, Event("response", r))
    /\ UNCHANGED <<raw, mapped, calls, posted>>

\* axios.post rejects with `error`: the handler runs the outer catch block
Reject(r, error) ==
    /\ pc[r] = "awaiting"
    /\ outcome' = [outcome EXCEPT ![r] = Outcome("rejected", NoBody, error)]
    /\ Catch(r, error)
    /\ UNCHANGED <<raw, mapped, calls, posted>>

(***************************************************************************)
(* Inputs.                                                                 *)
(***************************************************************************)
With(input, f, v) == [input EXCEPT ![f] = v]

CheckedFields == {"pace", "shooting", "passing", "defending", "physic",
                  "potential", "skill_moves", "age", "body_type"}

\* every check of the reasons block fires
WeakInput ==
    [f \in RawFields |->
        CASE f = "pace" -> Num(60)
          [] f = "shooting" -> Num(60)
          [] f = "passing" -> Num(60)
          [] f = "defending" -> Num(50)
          [] f = "physic" -> Num(60)
          [] f = "potential" -> Num(40)
          [] f = "skill_moves" -> Num(2)
          [] f = "age" -> Num(36)
          [] f = "body_type" -> Str(<<"F", "a", "t">>)
          [] f = "work_rate" -> Str(<<"L">>)
          [] f = "weight_kg" -> Num(80)
          [] OTHER -> Undef]

\* no check of the reasons block fires
StrongInput ==
    [f \in RawFields |->
        CASE f = "pace" -> Num(90)
          [] f = "shooting" -> Num(90)
          [] f = "passing" -> Num(90)
          [] f = "defending" -> Num(90)
          [] f = "physic" -> Num(90)
          [] f = "potential" -> Num(90)
          [] f = "skill_moves" -> Num(5)
          [] f = "age" -> Num(25)
          [] f = "body_type" -> Str(<<"L", "e", "a", "n">>)
          [] f = "work_rate" -> Str(<<"L">>)
          [] f = "weight_kg" -> Num(80)
          [] OTHER -> Undef]

\* every mix of weak and strong values over the nine checked fields
Combos ==
    {[f \in RawFields |-> IF f \in S THEN WeakInput[f] ELSE StrongInput[f]] :
        S \in SUBSET CheckedFields}

HandlerVals ==
    {Undef, Null, Obj, Str(<<>>), Str(<<"6", "0">>), Str(<<"a">>),
     Str(<<"x", "f", "A", "T">>), Str(<<"f", "a">>), Str(<<"a", "f", "t">>),
     Num(0), Num(2), Num(3), Num(34), Num(35), Num(49), Num(50), Num(59),
     Num(60), Num(64), Num(65), Num(69), Num(70)}

HandlerInputs ==
    Combos \cup
    {With(b, f, v) : b \in {EmptyInput, WeakInput, StrongInput},
                     f \in RawFields, v \in HandlerVals}

Ok == Str(<<"o", "k">>)
Bad == Str(<<"b", "a", "d">>)

SuccessBodies ==
    {Body("object", p, r, m, o, Undef) :
        p \in {Undef, Null, Num(0), Num(1), Str(<<"0">>)},
        r \in {Undef, Num(0), Num(1)},
        m \in {Undef, Ok},
        o \in {Undef, Num(0), Num(75)}}
    \cup {Body(k, Undef, Undef, Undef, Undef, Undef) : k \in {"null", "empty", "text"}}

FailureBodies ==
    {Body("object", Undef, Undef, Undef, Undef, e) :
        e \in {Undef, Null, Str(<<>>), Bad, Num(42), Obj}}
    \cup {Body(k, Undef, Undef, Undef, Undef, Undef) : k \in {"null", "empty", "text"}}

StatusMessage == Str(<<"s", "t", "a", "t", "u", "s">>)
ConnRefused == Str(<<"E", "C", "O", "N", "N">>)
SetupMessage == Str(<<"s", "e", "t", "u", "p">>)

Failures ==
    {Failure(TRUE, TRUE, d, StatusMessage) : d \in FailureBodies}
    \cup {Failure(FALSE, TRUE, NoBody, ConnRefused),
          Failure(FALSE, FALSE, NoBody, SetupMessage)}

Solo == {"r1"}

Next ==
    \E r \in Solo :
        \/ \E input \in HandlerInputs : Receive(r, input)
        \/ \E body \in SuccessBodies : Resolve(r, body)
        \/ \E error \in Failures : Reject(r, error)

Spec == Init /\ [][Next]_vars

(***************************************************************************)
(* Normalization on its own: requests are received and normalized, over a  *)
(* wider set of request bodies.                                            *)
(***************************************************************************)
MaxFields == 2

NormVals ==
    {Null, Obj, Str(<<>>), Str(<<"8", "0">>), Str(<<"a">>),
     Num(0), Num(4), Num(80)}

\* {pace:80, shooting:70, passing:60, dribbling:50, defending:40, physic:30}
AverageExample ==
    [f \in RawFields |->
        CASE f = "pace" -> Num(80)
          [] f = "shooting" -> Num(70)
          [] f = "passing" -> Num(60)
          [] f = "dribbling" -> Num(50)
          [] f = "defending" -> Num(40)
          [] f = "physic" -> Num(30)
          [] OTHER -> Undef]

\* an average that ends in .5
TieExample == With(EmptyInput, "pace", Num(9))

FieldsSet(input) == {f \in RawFields : input[f] # Undef}

InitNorm ==
    /\ pc = [r \in Requests |-> "idle"]
    /\ raw \in {[r \in Requests |-> IF r \in Solo THEN input ELSE EmptyInput] :
                   input \in {EmptyInput, AverageExample, TieExample}}
    /\ mapped = [r \in Requests |-> NoMapped]
    /\ outcome = [r \in Requests |-> NoOutcome]
    /\ resp = [r \in Requests |-> NoResponse]
    /\ sent = [r \in Requests |-> 0]
    /\ calls = [r \in Requests |-> 0]
    /\ posted = [r \in Requests |-> <<>>]
    /\ events = <<>>

\* the client puts one more field into the body it is about to post
Fill(r, f, v) ==
    /\ pc[r] = "idle"
    /\ raw[r][f] = Undef
    /\ Cardinality(FieldsSet(raw[r])) < MaxFields
    /\ raw' = [raw EXCEPT ![r] = With(@, f, v)]
    /\ UNCHANGED <<pc, mapped, outcome, resp, sent, calls, posted, events>>

\* the client posts the body
Submit(r) == Receive(r, raw[r])

NextNorm ==
    \E r \in Solo :
        \/ \E f \in RawFields, v \in NormVals : Fill(r, f, v)
        \/ Submit(r)

SpecNorm == InitNorm /\ [][NextNorm]_vars

(***************************************************************************)
(* Properties of normalization.                                            *)
(***************************************************************************)
Normalized(r) == pc[r] = "awaiting"

\* every field of the body is absent, null, a string or a number
ScalarInput(input) ==
    \A f \in RawFields : input[f].t \in {"undef", "null", "str", "num"}

\* C1: for every raw input whose fields are absent, null, the empty string,
\* a string or a number, each of the twelve fields of the normalized record
\* is present and is not null.
C1_FullyPopulated ==
    \A r \in Requests :
        Normalized(r) /\ ScalarInput(raw[r])
            => \A f \in NormFields : mapped[r][f] \notin {Undef, Null}

DefaultOf(f) ==
    CASE f \in {"work_rate", "body_type"} -> UnknownCategory
      [] f = "player_traits" -> Str(<<>>)
      [] OTHER -> Num(0)

\* C6: for each of age, pace, shooting, passing, defending, physic,
\* work_rate, body_type and player_traits, a raw field that is absent or the
\* empty string normalizes to the field's fixed default.
C6_DefaultsApplied ==
    \A r \in Requests :
        Normalized(r)
            => \A f \in {"age", "pace", "shooting", "passing", "defending",
                         "physic", "work_rate", "body_type", "player_traits"} :
                   raw[r][f] \in {Undef, Str(<<>>)} => mapped[r][f] = DefaultOf(f)

Contributors == <<"pace", "shooting", "passing", "dribbling", "defending",
                  "physic">>

\* the contributor is absent, a number, or a string that spells a number
NumericOrAbsent(v) ==
    v.t \in {"undef", "num"} \/ (v.t = "str" /\ StrToNum(v.s).t = "num")

\* the number a contributor stands for, a missing one counting as 0
NumericValue(v) == IF v.t = "undef" THEN 0 ELSE ToNumber(v).n

ContributorSum(input) ==
    NumericValue(input.pace) + NumericValue(input.shooting)
    + NumericValue(input.passing) + NumericValue(input.dribbling)
    + NumericValue(input.defending) + NumericValue(input.physic)

\* q is sum / 6 rounded to the nearest integer
IsRoundedSixth(q, sum) == 6 * q - 3 <= sum /\ sum < 6 * q + 3

\* C7: with `potential` absent, the normalized potential is
\* round((pace + shooting + passing + dribbling + defending + physic) / 6),
\* the contributors read as numeric values and a missing one counting as 0;
\* with `potential` present it is passed through unchanged.
C7_PotentialDerived ==
    \A r \in Requests :
        (/\ Normalized(r)
         /\ \A i \in 1..Len(Contributors) : NumericOrAbsent(raw[r][Contributors[i]]))
            => IF raw[r].potential = Undef
               THEN /\ mapped[r].potential.t = "num"
                    /\ IsRoundedSixth(mapped[r].potential.n, ContributorSum(raw[r]))
               ELSE mapped[r].potential = raw[r].potential

\* C9 as stated: weight_kg is raw weight_kg when present, otherwise raw
\* weight when present, otherwise 0; skill_moves is raw skill_moves when
\* present, otherwise raw dribbling when present, otherwise 0.
C9_FallbacksAsStated ==
    \A r \in Requests :
        Normalized(r)
            => /\ mapped[r].weight_kg =
                    (IF raw[r].weight_kg # Undef THEN raw[r].weight_kg
                     ELSE IF raw[r].weight # Undef THEN raw[r].weight
                     ELSE Num(0))
               /\ mapped[r].skill_moves =
                    (IF raw[r].skill_moves # Undef THEN raw[r].skill_moves
                     ELSE IF raw[r].dribbling # Undef THEN raw[r].dribbling
                     ELSE Num(0))

\* C9 (amended): weight_kg is raw weight_kg when present; otherwise raw
\* weight when that is present and is neither null, the empty string nor 0;
\* otherwise 0.  skill_moves is raw skill_moves when present, otherwise raw
\* dribbling when present, otherwise 0.
C9_Fallbacks ==
    \A r \in Requests :
        Normalized(r)
            => /\ mapped[r].weight_kg =
                    (IF raw[r].weight_kg # Undef THEN raw[r].weight_kg
                     ELSE IF raw[r].weight \notin {Undef, Null, Str(<<>>), Num(0)}
                          THEN raw[r].weight
                     ELSE Num(0))
               /\ mapped[r].skill_moves =
                    (IF raw[r].skill_moves # Undef THEN raw[r].skill_moves
                     ELSE IF raw[r].dribbling # Undef THEN raw[r].dribbling
                     ELSE Num(0))

\* both fallbacks taken: the legacy weight and the dribbling proxy
C9_Witness ==
    \E r \in Requests :
        /\ Normalized(r)
        /\ raw[r].weight_kg = Undef /\ raw[r].weight = Num(80)
        /\ raw[r].skill_moves = Undef /\ raw[r].dribbling = Num(4)
        /\ mapped[r].weight_kg = Num(80) /\ mapped[r].skill_moves = Num(4)

(***************************************************************************)
(* Properties of the handler.                                              *)
(***************************************************************************)
Resolved(r) == outcome[r].kind = "resolved"
Rejected(r) == outcome[r].kind = "rejected"

ServerError(status) == 500 <= status /\ status <= 599

\* C2: every request whose outbound call resolved or failed receives exactly
\* one response, either status 200 with exactly the keys prediction, message,
\* reasons, overall_calculated, or a server-error status with body
\* { error: <string> }, whatever the shape of the failure.
C2_ExactlyOneResponse ==
    \A r \in Requests :
        Resolved(r) \/ Rejected(r)
            => /\ sent[r] = 1
               /\ resp[r].sent
               /\ \/ /\ resp[r].status = 200
                     /\ Keys(resp[r]) = {"prediction", "message", "reasons",
                                         "overall_calculated"}
                  \/ /\ ServerError(resp[r].status)
                     /\ Keys(resp[r]) = {"error"}
                     /\ resp[r].error.t = "str"

\* no checked field of the normalized record is an object that cannot be
\* converted to a primitive
Comparable(m) == \A f \in CheckedFields : m[f].t # "obj"

\* C3: on a successful outbound call the prediction returned is the service
\* body's `prediction` field when present, otherwise its legacy `response`
\* field, null only when both are absent; reasons are computed whenever the
\* prediction so extracted is 0, also when the 0 is the legacy field's.
C3_PredictionExtracted ==
    \A r \in Requests :
        Resolved(r) /\ outcome[r].data.kind = "object"
            => LET data == outcome[r].data
                   expected == IF data.prediction # Undef THEN data.prediction
                               ELSE IF data.response # Undef THEN data.response
                               ELSE Null
               IN /\ resp[r].prediction = expected
                  /\ expected = Num(0) /\ Comparable(mapped[r])
                         => resp[r].reasons # <<>>

\* the number a primitive value compares as, if any
ComparesBelow(v, k) == ToNumber(v).t = "num" /\ ToNumber(v).n < k
ComparesAbove(v, k) == ToNumber(v).t = "num" /\ ToNumber(v).n > k

\* the text of v contains "fat", in any mix of cases
ContainsFat(v) ==
    LET str == StringOf(v).s
    IN \E i \in 1..(Len(str) - 2) :
           /\ str[i] \in {"f", "F"}
           /\ str[i + 1] \in {"a", "A"}
           /\ str[i + 2] \in {"t", "T"}

\* the i-th predicate of the catalog
PredicateHolds(m, i) ==
    CASE i = 1 -> ComparesBelow(m.pace, 70)
      [] i = 2 -> ComparesBelow(m.shooting, 65)
      [] i = 3 -> ComparesBelow(m.passing, 65)
      [] i = 4 -> ComparesBelow(m.defending, 60)
      [] i = 5 -> ComparesBelow(m.physic, 65)
      [] i = 6 -> ComparesBelow(m.potential, 50)
      [] i = 7 -> ComparesBelow(m.skill_moves, 3)
      [] i = 8 -> ComparesAbove(m.age, 34)
      [] OTHER -> ContainsFat(m.body_type)

\* list holds the reasons whose predicate holds, each once, in catalog order
IsReferenceList(list, m) ==
    LET fired == {i \in 1..9 : PredicateHolds(m, i)}
    IN IF fired = {}
       THEN list = <<FallbackReason>>
       ELSE /\ Len(list) = Cardinality(fired)
            /\ \A n \in 1..Len(list) :
                   \E i \in fired :
                       /\ list[n] = ReasonCatalog[i]
                       /\ Cardinality({j \in fired : j < i}) = n - 1

\* C4 as stated: when the prediction is 0, the reasons are the catalog's
\* strings whose predicate holds on the normalized record, in the catalog's
\* order; when none holds, the list is the fallback string alone.
C4_ReasonsReferenceAsStated ==
    \A r \in Requests :
        (/\ Resolved(r)
         /\ resp[r].status = 200
         /\ resp[r].prediction = Num(0))
            => IsReferenceList(resp[r].reasons, mapped[r])

\* C4 (amended): when the prediction is 0 and computing the reasons raised
\* no fault, the reasons are the catalog's strings whose predicate holds on
\* the normalized record, in the catalog's order, and the fallback string
\* alone when none holds; when it raised a fault (a checked field cannot be
\* converted to a primitive), the list is empty.
C4_ReasonsReference ==
    \A r \in Requests :
        (/\ Resolved(r)
         /\ resp[r].status = 200
         /\ resp[r].prediction = Num(0))
            => IF Comparable(mapped[r])
               THEN IsReferenceList(resp[r].reasons, mapped[r])
               ELSE resp[r].reasons = <<>>

\* all nine reasons, in order
C4_Witness ==
    \E r \in Requests :
        /\ Resolved(r)
        /\ resp[r].prediction = Num(0)
        /\ resp[r].reasons = ReasonCatalog

\* C5 as stated: a 200 response whose prediction is not 0 has no reasons,
\* and a 200 response whose prediction is 0 has a non-empty reasons list.
C5_ReasonsIffZeroAsStated ==
    \A r \in Requests :
        Resolved(r) /\ resp[r].status = 200
            => /\ resp[r].prediction # Num(0) => resp[r].reasons = <<>>
               /\ resp[r].prediction = Num(0) => resp[r].reasons # <<>>

\* C5 (amended): a 200 response whose prediction is not 0 has no reasons; a
\* 200 response whose prediction is 0 has a non-empty reasons list unless
\* computing the reasons raised (a checked field cannot be converted to a
\* primitive), and then the list is empty.
C5_ReasonsIffZero ==
    \A r \in Requests :
        Resolved(r) /\ resp[r].status = 200
            => /\ resp[r].prediction # Num(0) => resp[r].reasons = <<>>
               /\ resp[r].prediction = Num(0)
                      => (resp[r].reasons = <<>> <=> ~Comparable(mapped[r]))

\* a prediction of 0 whose reasons are lost to a fault on body_type
C5_Witness ==
    \E r \in Requests :
        /\ Resolved(r)
        /\ resp[r].status = 200
        /\ resp[r].prediction = Num(0)
        /\ mapped[r].body_type = Obj
        /\ resp[r].reasons = <<>>

\* C8: a failure with a response that carries a service-supplied error
\* message is answered with that message verbatim; a failure with no
\* response, or in building the request, is answered with the fixed generic
\* message and nothing of the underlying error; the status is a
\* server-error status whenever such a failure is answered.
C8_ErrorString ==
    \A r \in Requests :
        Rejected(r) \/ outcome[r].kind = "threw"
            => LET error == outcome[r].error
               IN /\ (/\ error.response
                      /\ error.data.kind = "object"
                      /\ error.data.error.t = "str"
                      /\ error.data.error.s # <<>>)
                         => /\ resp[r].sent
                            /\ resp[r].error = error.data.error
                  /\ ~error.response
                         => /\ resp[r].sent
                            /\ resp[r].error = Str(GenericText)
                            /\ resp[r].error # error.message
                  /\ resp[r].sent => ServerError(resp[r].status)

\* the service's own message forwarded
C8_Witness ==
    \E r \in Requests :
        /\ Rejected(r)
        /\ outcome[r].error.response
        /\ outcome[r].error.data.error = Bad
        /\ resp[r].status = 500
        /\ resp[r].error = Bad

\* the body's field, null when it is absent
OrNull(v) == IF v = Undef THEN Null ELSE v

\* C10: a fault raised while computing reasons does not surface: the request
\* receives the 200 response with prediction, message and
\* overall_calculated as the service gave them and an empty reasons list.
C10_FaultSwallowed ==
    \A r \in Requests :
        (/\ Resolved(r)
         /\ outcome[r].data.kind = "object"
         /\ outcome[r].data.prediction = Num(0)
         /\ ~Comparable(mapped[r]))
            => /\ pc[r] = "done"
               /\ sent[r] = 1
               /\ resp[r].sent
               /\ resp[r].status = 200
               /\ resp[r].prediction = Num(0)
               /\ resp[r].message = OrNull(outcome[r].data.message)
               /\ resp[r].overall_calculated
                      = OrNull(outcome[r].data.overall_calculated)
               /\ resp[r].reasons = <<>>

\* the fault strikes at the age check, after seven reasons were pushed
C10_Witness ==
    \E r \in Requests :
        /\ Resolved(r)
        /\ outcome[r].data.prediction = Num(0)
        /\ mapped[r].pace = Num(60)
        /\ mapped[r].skill_moves = Num(2)
        /\ mapped[r].age = Obj
        /\ resp[r].status = 200
        /\ resp[r].reasons = <<>>

(***************************************************************************)
(* Properties of the outbound call.                                        *)
(***************************************************************************)
\* the positions of the events of the given type for request r
EventsOf(type, r) == {i \in 1..Len(events) : events[i] = Event(type, r)}

\* C11: each request issues exactly one outbound call, after normalization
\* and before any response is sent, whose body is exactly the twelve-field
\* normalized record; no further call follows a failure.
C11_OneOutboundCall ==
    \A r \in Requests :
        pc[r] # "idle"
            => /\ calls[r] = 1
               /\ Cardinality(EventsOf("call", r)) = 1
               /\ Len(posted[r]) = 1
               /\ DOMAIN posted[r][1] = NormFields
               /\ posted[r][1] = normalize(raw[r])
               /\ \A i \in EventsOf("response", r) :
                      \E j \in EventsOf("call", r) : j < i

(***************************************************************************)
(* Two requests in flight: both handlers run, their steps interleaved in   *)
(* any order, over a small set of bodies and outcomes.                     *)
(***************************************************************************)
PairInputs == {EmptyInput, WeakInput, StrongInput, With(WeakInput, "age", Obj)}

PairBodies ==
    {Body("object", Num(0), Undef, Ok, Num(75), Undef),
     Body("object", Num(1), Undef, Undef, Undef, Undef),
     Body("object", Undef, Num(1), Ok, Undef, Undef)}

PairFailures ==
    {Failure(TRUE, TRUE, Body("object", Undef, Undef, Undef, Undef, Bad),
             StatusMessage),
     Failure(FALSE, TRUE, NoBody, ConnRefused)}

NextPair ==
    \E r \in Requests :
        \/ \E input \in PairInputs : Receive(r, input)
        \/ \E body \in PairBodies : Resolve(r, body)
        \/ \E error \in PairFailures : Reject(r, error)

SpecPair == Init /\ [][NextPair]_vars

\* what request r holds is what its own body and its own outcome give
OwnValues(r) ==
    /\ pc[r] = "idle"
           => /\ mapped[r] = NoMapped /\ posted[r] = <<>>
              /\ resp[r] = NoResponse /\ outcome[r] = NoOutcome
    /\ pc[r] = "awaiting"
           => /\ mapped[r] = normalize(raw[r])
              /\ posted[r] = <<normalize(raw[r])>>
              /\ resp[r] = NoResponse /\ outcome[r] = NoOutcome
    /\ Resolved(r)
           => /\ mapped[r] = normalize(raw[r])
              /\ posted[r] = <<normalize(raw[r])>>
              /\ resp[r] = onSuccess(normalize(raw[r]), outcome[r].data)
    /\ Rejected(r)
           => /\ mapped[r] = normalize(raw[r])
              /\ posted[r] = <<normalize(raw[r])>>
              /\ resp[r] = onFailure(outcome[r].error)
    /\ outcome[r].kind = "threw"
           => /\ mapped[r] = NoMapped /\ posted[r] = <<>>
              /\ resp[r] = onFailure(TypeError)

\* a step that is not a step of request r leaves everything r holds alone
NoInterference(r) ==
    pc'[r] = pc[r]
        => /\ raw'[r] = raw[r] /\ mapped'[r] = mapped[r]
           /\ outcome'[r] = outcome[r] /\ resp'[r] = resp[r]
           /\ sent'[r] = sent[r] /\ calls'[r] = calls[r]
           /\ posted'[r] = posted[r]

\* C12: with two requests in flight at once, resolved in any order, each
\* request's normalized record, outbound body and response are determined by
\* its own raw input and its own outbound-call outcome, and no step of one
\* request changes anything the other holds.
C12_Independent ==
    /\ [](\A r \in Requests : OwnValues(r))
    /\ [][\A r \in Requests : NoInterference(r)]_vars

\* both calls issued before either response, the responses in the reverse
\* order, each request answered from its own record
C12_Witness ==
    /\ events = <<Event("call", "r1"), Event("call", "r2"),
                  Event("response", "r2"), Event("response", "r1")>>
    /\ raw["r1"] = WeakInput /\ raw["r2"] = StrongInput
    /\ resp["r1"].prediction = Num(0) /\ resp["r1"].reasons = ReasonCatalog
    /\ resp["r2"].prediction = Num(0) /\ resp["r2"].reasons = <<FallbackReason>>

(***************************************************************************)
(* Normalization applied to its own output.                                *)
(***************************************************************************)
\* a normalized record read as a request body: dribbling and weight absent
AsBody(m) == [f \in RawFields |-> IF f \in NormFields THEN m[f] ELSE Undef]

\* C13: normalizing a normalized record gives that record back, field by
\* field, although dribbling and weight are no longer present in it.
C13_Idempotent ==
    \A r \in Requests :
        Normalized(r)
            => \A f \in NormFields : normalize(AsBody(mapped[r]))[f] = mapped[r][f]

\* a record whose potential, skill_moves and weight_kg came from dribbling
\* and weight, which the second pass no longer sees
C13_Witness ==
    \E r \in Requests :
        /\ Normalized(r)
        /\ raw[r].dribbling = Num(4) /\ raw[r].weight = Num(80)
        /\ raw[r].potential = Undef /\ raw[r].skill_moves = Undef
        /\ mapped[r].potential = Num(1)
        /\ mapped[r].skill_moves = Num(4)
        /\ mapped[r].weight_kg = Num(80)
        /\ normalize(AsBody(mapped[r])) = mapped[r]

====
